---- MODULE Spec2Model ----
(***************************************************************************)
(* Delivery cost API (src/api.py).                                         *)
(*                                                                         *)
(* Units.  All quantities of the program are floats that are exact in the  *)
(* model's fixed-point units:                                              *)
(*   distance : integer count of half distance units   (2.5 -> 5)          *)
(*   cost     : integer count of half monetary units   (rate * distance)   *)
(*   weight   : record [c, e] standing for c/100 + e * (EPSILON/2) weight  *)
(*              units, with |e| small, so that both the catalog weights    *)
(*              (multiples of 0.5), weights such as 5.01 and weights       *)
(*              within EPSILON of a tier boundary are represented exactly. *)
(* float('inf') is the integer Inf, larger than every finite cost.         *)
(* Python's None is the empty tuple, a present value x is <<x>>.           *)
(***************************************************************************)
EXTENDS Integers, Sequences, FiniteSets, TLC

VARIABLES
    \* one call of the service (second copy of the code, lines 268-403)
    entry,               \* "none" | "core" | "http": which entry point ran last
    request,             \* the HTTP request of calculate_cost, or None
    order_data,          \* argument of _calculate_overall_minimum_cost, or None
    involved_centers,    \* set of centers with a picked item
    weight_from_center,  \* center -> aggregate weight
    enumerated,          \* TRUE iff generate_all_routes was called
    all_routes,          \* sequence of routes
    route_costs,         \* cost of each evaluated route, in order
    min_cost,            \* running minimum after the loop
    result,              \* [cost, error, raised] returned by the core, or None
    response,            \* [status, minimum_cost, error] of the handler, or None
    legacy_result,       \* result of the first copy on the same order, or None
    previous,            \* [order, result] of the call before a repeat call, or None
    \* one walk of calculate_cost_for_route
    w_pc,                \* "off" | "start" | "loop" | "returned"
    w_route,             \* the route being walked
    w_weights,           \* weight_from_center of the walk
    w_idx,               \* index in w_route of the next loc_to
    w_state,             \* [carried_weight, cost, picked_centers, loc_from]
    w_return,            \* returned cost, or None
    w_pickups,           \* the [center, weight] additions to carried_weight, in order
    w_unloaded,          \* sequence of the weights carried into each L1 visit
    \* one call of calculate_segment_cost
    s_pc,                \* "off" | "input" | "priced"
    s_weight,
    s_distance,
    s_cost

coreVars == <<entry, request, order_data, involved_centers, weight_from_center,
              enumerated, all_routes, route_costs, min_cost, result, response,
              legacy_result, previous>>
walkVars == <<w_pc, w_route, w_weights, w_idx, w_state, w_return, w_pickups, w_unloaded>>
segVars  == <<s_pc, s_weight, s_distance, s_cost>>
vars     == <<coreVars, walkVars, segVars>>

None == << >>
Some(x) == <<x>>

-----------------------------------------------------------------------------
(* Bounds of the model *)

MaxUnits == 3          \* units asked for by one order of a direct call
MaxBodyUnits == 2      \* units asked for by one request body
MaxCentiWeight == 1100 \* largest weight (hundredths) priced on its own
MaxEps == 3            \* largest offset above a weight, in halves of EPSILON
MaxDistance == 8       \* largest distance (halves) priced on its own

-----------------------------------------------------------------------------
(* Weights *)

W(c, e) == [c |-> c, e |-> e]
Kg(n) == W(100 * n, 0)
WZero == W(0, 0)
WAdd(a, b) == W(a.c + b.c, a.e + b.e)
WSub(a, b) == W(a.c - b.c, a.e - b.e)
WScale(a, n) == W(a.c * n, a.e * n)
WLeq(a, b) == a.c < b.c \/ (a.c = b.c /\ a.e <= b.e)
WMax(a, b) == IF WLeq(a, b) THEN b ELSE a

CeilDiv(a, b) == IF a % b = 0 THEN a \div b ELSE (a \div b) + 1

\* math.ceil(x / 5) for a weight x
CeilFifth(x) == IF x.e > 0 THEN (x.c \div 500) + 1 ELSE CeilDiv(x.c, 500)

-----------------------------------------------------------------------------
(* Data definitions, lines 274-289 *)

Inf == 1000000

PRODUCTS ==
    [p \in {"A", "B", "C", "D", "E", "F", "G", "H", "I"} |->
        CASE p = "A" -> [center |-> "C1", weight |-> W(300, 0)]
          [] p = "B" -> [center |-> "C1", weight |-> W(200, 0)]
          [] p = "C" -> [center |-> "C1", weight |-> W(800, 0)]
          [] p = "D" -> [center |-> "C2", weight |-> W(1200, 0)]
          [] p = "E" -> [center |-> "C2", weight |-> W(2500, 0)]
          [] p = "F" -> [center |-> "C2", weight |-> W(1500, 0)]
          [] p = "G" -> [center |-> "C3", weight |-> W(50, 0)]
          [] p = "H" -> [center |-> "C3", weight |-> W(100, 0)]
          [] p = "I" -> [center |-> "C3", weight |-> W(200, 0)]]

DistancePairs ==
    {<<"C1", "L1">>, <<"L1", "C1">>, <<"C2", "L1">>, <<"L1", "C2">>,
     <<"C3", "L1">>, <<"L1", "C3">>, <<"C1", "C2">>, <<"C2", "C1">>,
     <<"C2", "C3">>, <<"C3", "C2">>}

DISTANCES ==
    [k \in DistancePairs |->
        CASE k \in {<<"C1", "L1">>, <<"L1", "C1">>} -> 6
          [] k \in {<<"C2", "L1">>, <<"L1", "C2">>} -> 5
          [] k \in {<<"C3", "L1">>, <<"L1", "C3">>} -> 4
          [] k \in {<<"C1", "C2">>, <<"C2", "C1">>} -> 8
          [] k \in {<<"C2", "C3">>, <<"C3", "C2">>} -> 6]

CENTERS == <<"C1", "C2", "C3">>
CenterSet == {CENTERS[i] : i \in 1..Len(CENTERS)}
EPSILON == W(0, 2)
FIVE == Kg(5)

-----------------------------------------------------------------------------
(* Helpers, lines 291-306 *)

get_distance(loc1, loc2) ==
    IF loc1 = loc2 THEN 0
    ELSE IF <<loc1, loc2>> \in DOMAIN DISTANCES THEN DISTANCES[<<loc1, loc2>>]
    ELSE IF <<loc2, loc1>> \in DOMAIN DISTANCES THEN DISTANCES[<<loc2, loc1>>]
    ELSE Inf

\* calculate_segment_cost counting only the full extra blocks (floor for ceil)
calculate_segment_cost_floor(weight, distance) ==
    IF distance <= 0 \/ distance = Inf THEN 0
    ELSE LET cost_per_km ==
                 IF WLeq(weight, EPSILON) THEN 10
                 ELSE IF WLeq(weight, WAdd(FIVE, EPSILON)) THEN 10
                 ELSE 10 + 8 * (WSub(weight, FIVE).c \div 500)
         IN  cost_per_km * distance

calculate_segment_cost(weight, distance) ==
    IF distance <= 0 \/ distance = Inf THEN 0
    ELSE LET cost_per_km ==
                 IF WLeq(weight, EPSILON) THEN 10
                 ELSE IF WLeq(weight, WAdd(FIVE, EPSILON)) THEN 10
                 ELSE 10 + 8 * CeilFifth(WSub(weight, FIVE))
         IN  cost_per_km * distance

-----------------------------------------------------------------------------
(* generate_all_routes, lines 308-322 *)

Last(s) == s[Len(s)]

RemoveAt(s, i) == [j \in 1..(Len(s) - 1) |-> IF j < i THEN s[j] ELSE s[j + 1]]

RECURSIVE Concat(_)
Concat(ss) == IF ss = << >> THEN << >> ELSE Head(ss) \o Concat(Tail(ss))

\* itertools.permutations(s), in the order itertools yields them
RECURSIVE permutations(_)
permutations(s) ==
    IF Len(s) = 0 THEN << << >> >>
    ELSE Concat([i \in 1..Len(s) |->
                    LET rest == permutations(RemoveAt(s, i))
                    IN  [j \in 1..Len(rest) |-> <<s[i]>> \o rest[j]]])

\* lines 314-318: the loop over i, here 1-based
RECURSIVE AppendStops(_, _, _, _)
AppendStops(route, perm, i, drop_indices) ==
    IF i > Len(perm) THEN route
    ELSE LET r1 == Append(route, perm[i])
             r2 == IF i = drop_indices THEN Append(r1, "L1") ELSE r1
         IN  AppendStops(r2, perm, i + 1, drop_indices)

\* BuildRoute without the test of line 319
BuildRoute_AlwaysAppend(perm, drop_indices) ==
    Append(AppendStops(<< >>, perm, 1, drop_indices), "L1")

\* lines 314-320: one route
BuildRoute(perm, drop_indices) ==
    LET route == AppendStops(<< >>, perm, 1, drop_indices)
    IN  IF Last(route) # "L1" THEN Append(route, "L1") ELSE route

\* generate_all_routes without the split deliveries
generate_round_trips_only(centers) ==
    LET perms == permutations(centers)
    IN  [p \in 1..Len(perms) |-> BuildRoute(perms[p], Len(perms[p]))]

generate_all_routes(centers) ==
    LET perms == permutations(centers)
    IN  Concat([p \in 1..Len(perms) |->
                   [d \in 1..Len(perms[p]) |-> BuildRoute(perms[p], d)]])

-----------------------------------------------------------------------------
(* calculate_cost_for_route, lines 324-349 *)

\* WalkStart without the pickup at the first location
WalkStart_NoPickup(route, wfc) ==
    [carried_weight |-> WZero, cost |-> 0, picked_centers |-> {}, loc_from |-> route[1]]

\* lines 325-335, for a route that does not start at L1
WalkStart(route, wfc) ==
    LET loc_from == route[1]
    IN  [carried_weight |-> IF loc_from \in CenterSet THEN wfc[loc_from] ELSE WZero,
         cost           |-> 0,
         picked_centers |-> IF loc_from \in CenterSet THEN {loc_from} ELSE {},
         loc_from       |-> loc_from]

\* WalkStep without the unloading at L1
WalkStep_NoUnload(st, loc_to, wfc) ==
    LET dist == get_distance(st.loc_from, loc_to)
        pick == loc_to \in CenterSet /\ loc_to \notin st.picked_centers
    IN  [carried_weight |-> IF pick THEN WAdd(st.carried_weight, wfc[loc_to])
                            ELSE st.carried_weight,
         cost           |-> st.cost + calculate_segment_cost(st.carried_weight, dist),
         picked_centers |-> IF pick THEN st.picked_centers \cup {loc_to}
                            ELSE st.picked_centers,
         loc_from       |-> loc_to]

\* lines 338-347: one iteration of the loop
WalkStep(st, loc_to, wfc) ==
    LET dist == get_distance(st.loc_from, loc_to)
        cost == st.cost + calculate_segment_cost(st.carried_weight, dist)
        pick == loc_to # "L1" /\ loc_to \in CenterSet /\ loc_to \notin st.picked_centers
    IN  [carried_weight |-> IF loc_to = "L1" THEN WZero
                            ELSE IF pick THEN WAdd(st.carried_weight, wfc[loc_to])
                            ELSE st.carried_weight,
         cost           |-> cost,
         picked_centers |-> IF pick THEN st.picked_centers \cup {loc_to}
                            ELSE st.picked_centers,
         loc_from       |-> loc_to]

RECURSIVE WalkLoop(_, _, _, _)
WalkLoop(st, route, i, wfc) ==
    IF i > Len(route) THEN st
    ELSE WalkLoop(WalkStep(st, route[i], wfc), route, i + 1, wfc)

calculate_cost_for_route(route, wfc) ==
    IF route[1] = "L1" THEN Inf
    ELSE WalkLoop(WalkStart(route, wfc), route, 2, wfc).cost

-----------------------------------------------------------------------------
(* _calculate_overall_minimum_cost, lines 351-375 *)

RECURSIVE SumWeights(_, _)
SumWeights(ps, order) ==
    IF ps = {} THEN WZero
    ELSE LET p == CHOOSE x \in ps : TRUE
         IN  WAdd(WScale(PRODUCTS[p].weight, order[p]), SumWeights(ps \ {p}, order))

\* Picked with qty < 0 for qty <= 0
Picked_StrictlyNegative(order) ==
    {p \in DOMAIN order : ~(order[p] < 0 \/ p \notin DOMAIN PRODUCTS)}

\* line 356: the entries the loop does not skip
Picked(order) == {p \in DOMAIN order : ~(order[p] <= 0 \/ p \notin DOMAIN PRODUCTS)}

\* lines 352-361
InvolvedCenters(order) == {PRODUCTS[p].center : p \in Picked(order)}

WeightFromCenter(order) ==
    [c \in CenterSet |->
        SumWeights({p \in Picked(order) : PRODUCTS[p].center = c}, order)]

\* line 366: list(involved_centers), in any iteration order of the set
Orderings(S) ==
    {s \in [1..Cardinality(S) -> S] : \A i, j \in DOMAIN s : i # j => s[i] # s[j]}

Min(a, b) == IF a <= b THEN a ELSE b

\* MinLoop keeping the cost of the last route
MinLoop_Last(costs, i, acc) == IF Len(costs) = 0 THEN acc ELSE costs[Len(costs)]

\* lines 368-371
RECURSIVE MinLoop(_, _, _)
MinLoop(costs, i, acc) ==
    IF i > Len(costs) THEN acc
    ELSE MinLoop(costs, i + 1, Min(acc, costs[i]))

RouteCosts(routes, wfc) ==
    [i \in 1..Len(routes) |-> calculate_cost_for_route(routes[i], wfc)]

\* Python round() of a cost given in halves: to nearest, ties to even
round(h) ==
    LET f == h \div 2
    IN  IF h % 2 = 0 THEN f ELSE IF f % 2 = 0 THEN f ELSE f + 1

\* line 375; round(float('inf')) raises OverflowError
RoundedResult(cost) ==
    IF cost = Inf THEN [cost |-> None, error |-> None, raised |-> TRUE]
    ELSE [cost |-> Some(round(cost)), error |-> None, raised |-> FALSE]

\* ReturnValue with the test of line 373 inverted
ReturnValue_Inverted(cost) ==
    IF cost # Inf
    THEN [cost |-> None, error |-> Some("No valid delivery route found"), raised |-> FALSE]
    ELSE RoundedResult(cost)

\* lines 373-375
ReturnValue(cost) ==
    IF cost = Inf
    THEN [cost |-> None, error |-> Some("No valid delivery route found"), raised |-> FALSE]
    ELSE RoundedResult(cost)

-----------------------------------------------------------------------------
(* The first copy of the logic, lines 29-176 *)

\* lines 29-35
legacy_get_distance(loc1, loc2) ==
    IF loc1 = loc2 THEN 0
    ELSE IF <<loc1, loc2>> \in DOMAIN DISTANCES THEN DISTANCES[<<loc1, loc2>>]
    ELSE IF <<loc2, loc1>> \in DOMAIN DISTANCES THEN DISTANCES[<<loc2, loc1>>]
    ELSE Inf

\* lines 37-51
legacy_calculate_segment_cost(weight, distance) ==
    IF distance <= 0 \/ distance = Inf THEN 0
    ELSE LET additional_weight == WMax(WZero, WSub(WSub(weight, FIVE), EPSILON))
             cost_per_unit ==
                 IF WLeq(weight, EPSILON) THEN 10
                 ELSE IF WLeq(weight, WAdd(FIVE, EPSILON)) THEN 10
                 ELSE 10 + 8 * CeilFifth(additional_weight)
         IN  cost_per_unit * distance

\* lines 53-71
_calculate_travel_cost_between_stops(loc_a, loc_b, weight_carried) ==
    LET cost_direct ==
            legacy_calculate_segment_cost(weight_carried, legacy_get_distance(loc_a, loc_b))
        dist_a_c2 == legacy_get_distance(loc_a, "C2")
        dist_c2_b == legacy_get_distance("C2", loc_b)
        cost_indirect ==
            IF <<loc_a, loc_b>> \in {<<"C1", "C3">>, <<"C3", "C1">>}
               /\ dist_a_c2 # Inf /\ dist_c2_b # Inf
            THEN legacy_calculate_segment_cost(weight_carried, dist_a_c2)
                 + legacy_calculate_segment_cost(weight_carried, dist_c2_b)
            ELSE Inf
    IN  Min(cost_direct, cost_indirect)

\* lines 106-127 and 144-165: the cost of one pickup order, Inf when it is skipped
RECURSIVE LegacyPathCost(_, _, _, _, _, _)
LegacyPathCost(loc_a, order, i, current_weight, current_cost, wfc) ==
    IF i > Len(order)
    THEN LET final_leg_cost == _calculate_travel_cost_between_stops(loc_a, "L1", current_weight)
         IN  IF final_leg_cost = Inf THEN Inf ELSE current_cost + final_leg_cost
    ELSE LET segment_cost == _calculate_travel_cost_between_stops(loc_a, order[i], current_weight)
         IN  IF segment_cost = Inf THEN Inf
             ELSE LegacyPathCost(order[i], order, i + 1,
                                 WAdd(current_weight, wfc[order[i]]),
                                 current_cost + segment_cost, wfc)

MinOf(S) == IF S = {} THEN Inf ELSE CHOOSE x \in S : \A y \in S : x <= y

\* lines 104-130 and 141-166: the minimum over the permutations
LegacyMinPerm(loc_a, centers, start_weight, wfc) ==
    MinOf({LegacyPathCost(loc_a, order, 1, start_weight, 0, wfc) : order \in Orderings(centers)})

\* lines 96-130
LegacyCostSimple(start_center, needed_centers, wfc, total_weight) ==
    IF needed_centers \ {start_center} = {}
    THEN IF start_center \in needed_centers
         THEN _calculate_travel_cost_between_stops(start_center, "L1", total_weight)
         ELSE Inf
    ELSE LegacyMinPerm(start_center, needed_centers \ {start_center}, wfc[start_center], wfc)

\* lines 133-169
LegacyCostPartial(start_center, needed_centers, wfc) ==
    IF ~WLeq(wfc[start_center], EPSILON) /\ Cardinality(needed_centers) > 1
    THEN LET cost_leg1 == _calculate_travel_cost_between_stops(start_center, "L1", wfc[start_center])
             min_perm_pickup_cost ==
                 LegacyMinPerm("L1", needed_centers \ {start_center}, WZero, wfc)
         IN  IF cost_leg1 # Inf /\ min_perm_pickup_cost # Inf
             THEN cost_leg1 + min_perm_pickup_cost
             ELSE Inf
    ELSE Inf

\* lines 75-176, for an order the handler has validated (lines 205-230)
legacy_calculate_overall_minimum_cost(order) ==
    IF DOMAIN order = {} THEN [cost |-> Some(0), error |-> None, raised |-> FALSE]
    ELSE LET needed_centers == {PRODUCTS[p].center : p \in DOMAIN order}
             wfc == [c \in CenterSet |->
                        SumWeights({p \in DOMAIN order : PRODUCTS[p].center = c}, order)]
             total_weight == SumWeights(DOMAIN order, order)
             min_overall_cost ==
                 MinOf({Min(LegacyCostSimple(c, needed_centers, wfc, total_weight),
                            LegacyCostPartial(c, needed_centers, wfc)) : c \in CenterSet})
         IN  IF min_overall_cost = Inf
             THEN [cost |-> None,
                   error |-> Some("No valid delivery path found for the given order."),
                   raised |-> FALSE]
             ELSE [cost |-> Some(round(min_overall_cost)), error |-> None, raised |-> FALSE]

-----------------------------------------------------------------------------
(* Inputs *)

UnknownCode == "Z"
Codes == DOMAIN PRODUCTS \cup {UnknownCode}

RECURSIVE SumOver(_, _)
SumOver(f, S) ==
    IF S = {} THEN 0
    ELSE LET x == CHOOSE y \in S : TRUE IN f[x] + SumOver(f, S \ {x})

\* the size of an order: the units it asks for, an entry the code skips counting one
Units(order) ==
    SumOver([p \in DOMAIN order |-> IF order[p] <= 0 THEN 1 ELSE order[p]], DOMAIN order)

QtyRange(n) == (0 - 1)..n
CodeSets(n) == {S \in SUBSET Codes : Cardinality(S) <= n}
Orders == {o \in UNION {[S -> QtyRange(MaxUnits)] : S \in CodeSets(MaxUnits)} :
              Units(o) <= MaxUnits}

\* a JSON value of the request body: an integer, or anything else
JInt(n) == [int |-> TRUE, val |-> n]
JOther == [int |-> FALSE, val |-> 0]
JsonValues == {JInt(n) : n \in QtyRange(MaxBodyUnits)} \cup {JOther}
BodyUnits(body) ==
    SumOver([p \in DOMAIN body |-> IF body[p].val <= 0 THEN 1 ELSE body[p].val], DOMAIN body)
Bodies == {b \in UNION {[S -> JsonValues] : S \in CodeSets(MaxBodyUnits)} :
              BodyUnits(b) <= MaxBodyUnits}
Requests ==
    {[is_json |-> j, is_dict |-> FALSE, body |-> << >>] : j \in BOOLEAN}
    \cup {[is_json |-> FALSE, is_dict |-> TRUE, body |-> << >>]}
    \cup {[is_json |-> TRUE, is_dict |-> TRUE, body |-> b] : b \in Bodies}

-----------------------------------------------------------------------------
(* The service *)

NoWeights == [c \in CenterSet |-> WZero]

CoreIdle ==
    /\ entry = "none"
    /\ request = None
    /\ order_data = None
    /\ involved_centers = {}
    /\ weight_from_center = NoWeights
    /\ enumerated = FALSE
    /\ all_routes = << >>
    /\ route_costs = << >>
    /\ min_cost = None
    /\ result = None
    /\ response = None
    /\ legacy_result = None
    /\ previous = None

WalkOff ==
    /\ w_pc = "off"
    /\ w_route = << >>
    /\ w_weights = NoWeights
    /\ w_idx = 0
    /\ w_state = None
    /\ w_return = None
    /\ w_pickups = << >>
    /\ w_unloaded = << >>

SegOff ==
    /\ s_pc = "off"
    /\ s_weight = WZero
    /\ s_distance = 0
    /\ s_cost = None

Init == CoreIdle /\ WalkOff /\ SegOff

\* one run of _calculate_overall_minimum_cost(order), lines 351-375
RunCore(order) ==
    /\ order_data' = Some(order)
    /\ involved_centers' = InvolvedCenters(order)
    /\ weight_from_center' = WeightFromCenter(order)
    /\ IF InvolvedCenters(order) = {}
       THEN /\ enumerated' = FALSE
            /\ all_routes' = << >>
            /\ route_costs' = << >>
            /\ min_cost' = None
            /\ result' = [cost |-> Some(0), error |-> None, raised |-> FALSE]
       ELSE \E centers \in Orderings(InvolvedCenters(order)) :
            \E routes \in {generate_all_routes(centers)} :
            \E costs \in {RouteCosts(routes, weight_from_center')} :
            \E m \in {MinLoop(costs, 1, Inf)} :
                /\ enumerated' = TRUE
                /\ all_routes' = routes
                /\ route_costs' = costs
                /\ min_cost' = Some(m)
                /\ result' = ReturnValue(m)

\* a direct call of _calculate_overall_minimum_cost
CallCore ==
    /\ entry = "none"
    /\ \E order \in Orders : RunCore(order)
    /\ entry' = "core"
    /\ UNCHANGED <<request, response, legacy_result, previous>>
    /\ UNCHANGED <<walkVars, segVars>>

\* lines 386-391
ValidatedOrder(body) ==
    LET keep == {p \in DOMAIN body : p \in DOMAIN PRODUCTS /\ body[p].int /\ body[p].val > 0}
    IN  [p \in keep |-> body[p].val]

Response(status, cost, error) == [status |-> status, minimum_cost |-> cost, error |-> error]

\* lines 379-399, for one request
HandleRequest(req) ==
    /\ request' = Some(req)
    /\ IF ~req.is_json
       THEN /\ response' = Response(415, None, Some("Content-Type must be application/json"))
            /\ UNCHANGED <<order_data, involved_centers, weight_from_center, enumerated,
                           all_routes, route_costs, min_cost, result>>
       ELSE IF ~req.is_dict
       THEN /\ response' = Response(400, None,
                               Some("Request must be a JSON object with product quantities"))
            /\ UNCHANGED <<order_data, involved_centers, weight_from_center, enumerated,
                           all_routes, route_costs, min_cost, result>>
       ELSE IF ValidatedOrder(req.body) = << >>
       THEN /\ response' = Response(200, Some(0), None)
            /\ UNCHANGED <<order_data, involved_centers, weight_from_center, enumerated,
                           all_routes, route_costs, min_cost, result>>
       ELSE /\ RunCore(ValidatedOrder(req.body))
            /\ response' = IF result'.error # None
                           THEN Response(400, None, result'.error)
                           ELSE Response(200, result'.cost, None)

\* POST /, calculate_cost, lines 377-399
Request ==
    /\ entry = "none"
    /\ \E req \in Requests : HandleRequest(req)
    /\ entry' = "http"
    /\ UNCHANGED <<legacy_result, previous>>
    /\ UNCHANGED <<walkVars, segVars>>

\* the orders the first copy's handler lets through, lines 205-230
IsValidated(order) == \A p \in DOMAIN order : p \in DOMAIN PRODUCTS /\ order[p] > 0

\* the first copy of _calculate_overall_minimum_cost run on the same order
CallLegacy ==
    /\ entry # "none"
    /\ order_data # None
    /\ legacy_result = None
    /\ previous = None
    /\ IsValidated(order_data[1])
    /\ legacy_result' = Some(legacy_calculate_overall_minimum_cost(order_data[1]))
    /\ UNCHANGED <<entry, request, order_data, involved_centers, weight_from_center,
                   enumerated, all_routes, route_costs, min_cost, result, response, previous>>
    /\ UNCHANGED <<walkVars, segVars>>

ValidatedOrders ==
    {o \in UNION {[S -> 1..MaxUnits] : S \in {T \in SUBSET DOMAIN PRODUCTS :
                                                  Cardinality(T) <= MaxUnits}} :
        Units(o) <= MaxUnits}
Quantity(order, p) == IF p \in DOMAIN order THEN order[p] ELSE 0
Raises(q, q2) == \A p \in DOMAIN PRODUCTS : Quantity(q, p) <= Quantity(q2, p)

\* a second direct call with a validated order, no quantity lower than in the validated
\* order of the call before it (a product absent from an order has quantity 0)
CallAgain ==
    /\ entry = "core"
    /\ legacy_result = None
    /\ previous = None
    /\ IsValidated(order_data[1])
    /\ \E order \in ValidatedOrders :
           /\ order # order_data[1]
           /\ Raises(order_data[1], order)
           /\ RunCore(order)
    /\ previous' = Some([order |-> order_data[1], result |-> result])
    /\ UNCHANGED <<entry, request, response, legacy_result>>
    /\ UNCHANGED <<walkVars, segVars>>

\* the call returns; the service keeps nothing between calls
Return ==
    /\ entry # "none"
    /\ entry' = "none"
    /\ request' = None
    /\ order_data' = None
    /\ involved_centers' = {}
    /\ weight_from_center' = NoWeights
    /\ enumerated' = FALSE
    /\ all_routes' = << >>
    /\ route_costs' = << >>
    /\ min_cost' = None
    /\ result' = None
    /\ response' = None
    /\ legacy_result' = None
    /\ previous' = None
    /\ UNCHANGED <<walkVars, segVars>>

Next ==
    \/ CallCore
    \/ Request
    \/ CallLegacy
    \/ Return

Spec == Init /\ [][Next]_vars

NextMono == Next \/ CallAgain

SpecMono == Init /\ [][NextMono]_vars

-----------------------------------------------------------------------------
(* One walk of calculate_cost_for_route over an enumerated route, step by step *)

RECURSIVE SumSeq(_)
SumSeq(ws) == IF ws = << >> THEN WZero ELSE WAdd(Head(ws), SumSeq(Tail(ws)))

SeqRange(s) == {s[i] : i \in 1..Len(s)}

\* the (route, weight_from_center) pairs line 370 passes for the orders of Orders
InitWalk ==
    /\ CoreIdle
    /\ SegOff
    /\ \E order \in Orders :
           /\ InvolvedCenters(order) # {}
           /\ w_weights = WeightFromCenter(order)
           /\ \E centers \in Orderings(InvolvedCenters(order)) :
                  w_route \in SeqRange(generate_all_routes(centers))
    /\ w_pc = "start"
    /\ w_idx = 0
    /\ w_state = None
    /\ w_return = None
    /\ w_pickups = << >>
    /\ w_unloaded = << >>

\* what the step from `old` to `new` added to carried_weight on arriving at loc
PickupsAfter(old_weight, new, loc) ==
    IF loc # "L1" /\ new.carried_weight # old_weight
    THEN Append(w_pickups, [center |-> loc, weight |-> WSub(new.carried_weight, old_weight)])
    ELSE w_pickups

\* lines 325-335
WalkBegin ==
    /\ w_pc = "start"
    /\ IF w_route[1] = "L1"
       THEN /\ w_pc' = "returned"
            /\ w_return' = Some(Inf)
            /\ UNCHANGED <<w_idx, w_state, w_pickups>>
       ELSE /\ w_pc' = "loop"
            /\ w_state' = Some(WalkStart(w_route, w_weights))
            /\ w_idx' = 2
            /\ w_pickups' = PickupsAfter(WZero, w_state'[1], w_route[1])
            /\ UNCHANGED w_return
    /\ UNCHANGED <<w_route, w_weights, w_unloaded>>
    /\ UNCHANGED <<coreVars, segVars>>

\* lines 337-347: one iteration
WalkIterate ==
    /\ w_pc = "loop"
    /\ w_idx <= Len(w_route)
    /\ w_state' = Some(WalkStep(w_state[1], w_route[w_idx], w_weights))
    /\ w_idx' = w_idx + 1
    /\ w_pickups' = PickupsAfter(w_state[1].carried_weight, w_state'[1], w_route[w_idx])
    /\ w_unloaded' = IF w_route[w_idx] = "L1"
                     THEN Append(w_unloaded, w_state[1].carried_weight)
                     ELSE w_unloaded
    /\ UNCHANGED <<w_pc, w_route, w_weights, w_return>>
    /\ UNCHANGED <<coreVars, segVars>>

\* line 349
WalkReturn ==
    /\ w_pc = "loop"
    /\ w_idx > Len(w_route)
    /\ w_pc' = "returned"
    /\ w_return' = Some(w_state[1].cost)
    /\ UNCHANGED <<w_route, w_weights, w_idx, w_state, w_pickups, w_unloaded>>
    /\ UNCHANGED <<coreVars, segVars>>

NextWalk == WalkBegin \/ WalkIterate \/ WalkReturn

SpecWalk == InitWalk /\ [][NextWalk]_vars

-----------------------------------------------------------------------------
(* One call of calculate_segment_cost on a weight and a distance *)

SegWeights ==
    {W(c, e) : c \in 0..MaxCentiWeight, e \in (0 - MaxEps)..MaxEps} \ {W(0, e) : e \in (0 - MaxEps)..(0 - 1)}
SegDistances == 0..MaxDistance \cup {Inf}

InitSeg ==
    /\ CoreIdle
    /\ WalkOff
    /\ s_pc = "input"
    /\ s_weight \in SegWeights
    /\ s_distance \in SegDistances
    /\ s_cost = None

\* lines 296-306
Price ==
    /\ s_pc = "input"
    /\ s_pc' = "priced"
    /\ s_cost' = Some(calculate_segment_cost(s_weight, s_distance))
    /\ UNCHANGED <<s_weight, s_distance>>
    /\ UNCHANGED <<coreVars, walkVars>>

NextSeg == Price

SpecSeg == InitSeg /\ [][NextSeg]_vars

-----------------------------------------------------------------------------
(* Vocabulary of the properties, stated without the operators of the code *)

Called == entry # "none" /\ order_data # None
NonEmptyValid == Called /\ IsValidated(order_data[1]) /\ DOMAIN order_data[1] # {}

\* the demand of a validated order
DemandCenters(order) == {PRODUCTS[p].center : p \in DOMAIN order}
Demand(order, c) ==
    LET at == {p \in DOMAIN order : PRODUCTS[p].center = c}
    IN  W(SumOver([p \in at |-> PRODUCTS[p].weight.c * order[p]], at), 0)
DemandProfile(order) == [c \in CenterSet |-> Demand(order, c)]
TotalDemand(order) ==
    W(SumOver([p \in DOMAIN order |-> PRODUCTS[p].weight.c * order[p]], DOMAIN order), 0)

\* the route of permutation p split after its k-th warehouse
SplitRoute(p, k) ==
    SubSeq(p, 1, k) \o <<"L1">> \o SubSeq(p, k + 1, Len(p))
        \o (IF k < Len(p) THEN <<"L1">> ELSE << >>)

RECURSIVE Factorial(_)
Factorial(n) == IF n <= 0 THEN 1 ELSE n * Factorial(n - 1)

\* the cost of every round trip (k = n) and of every split delivery (k < n)
RoundTripCosts(order) ==
    {calculate_cost_for_route(SplitRoute(p, Len(p)), DemandProfile(order)) :
        p \in Orderings(DemandCenters(order))}
SplitCosts(order) ==
    UNION {{calculate_cost_for_route(SplitRoute(p, k), DemandProfile(order)) :
               k \in 1..(Len(p) - 1)} : p \in Orderings(DemandCenters(order))}

-----------------------------------------------------------------------------
(* C1: for every valid non-empty order the returned cost is the rounded   *)
(* minimum of calculate_cost_for_route over the routes of every            *)
(* permutation of the involved warehouses and every split point: no        *)
(* greater than any round trip, no greater than any split delivery, and    *)
(* attained by one of them.                                                *)
C1_MinimumOverAllRoutes ==
    NonEmptyValid =>
        LET costs == RoundTripCosts(order_data[1]) \cup SplitCosts(order_data[1])
        IN  /\ result.cost # None
            /\ \A c \in costs : result.cost[1] <= round(c)
            /\ \E c \in costs : result.cost[1] = round(c)

\* an order over three warehouses whose cheapest route is a split delivery
C1_Witness ==
    /\ NonEmptyValid
    /\ Cardinality(involved_centers) = 3
    /\ result.cost # None
    /\ \A c \in RoundTripCosts(order_data[1]) : result.cost[1] < round(c)
    /\ \E c \in SplitCosts(order_data[1]) : result.cost[1] = round(c)

-----------------------------------------------------------------------------
(* C2: when no quantity of the second order is lower than in the first (a  *)
(* product absent from an order counting as quantity 0), the cost returned *)
(* for the second order is not smaller than the cost returned for the      *)
(* first.                                                                  *)
C2_Monotone ==
    (previous # None /\ Raises(previous[1].order, order_data[1])) =>
        /\ previous[1].result.cost # None
        /\ result.cost # None
        /\ previous[1].result.cost[1] <= result.cost[1]

-----------------------------------------------------------------------------
Unreachable(a, b) ==
    a # b /\ <<a, b>> \notin DistancePairs /\ <<b, a>> \notin DistancePairs
HasUnreachableSegment(route) ==
    \E j \in 1..(Len(route) - 1) : Unreachable(route[j], route[j + 1])

(* C3: a route with two consecutive locations that have no entry in the    *)
(* distance table evaluates to the infeasible sentinel, so it contributes  *)
(* no finite cost to the minimum.                                          *)
C3_UnreachableIsInfeasible ==
    \A i \in DOMAIN route_costs :
        HasUnreachableSegment(all_routes[i]) => route_costs[i] = Inf

-----------------------------------------------------------------------------
(* C4: an order whose items all come from one warehouse W, of total weight *)
(* w > 0, costs round(calculate_segment_cost(w, get_distance(W, L1))); one *)
(* unit of B, the lightest product of C1, costs round(10 * distance(C1,    *)
(* L1)).                                                                   *)
C4_SingleWarehouse ==
    /\ (NonEmptyValid /\ Cardinality(DemandCenters(order_data[1])) = 1) =>
           LET center == CHOOSE c \in DemandCenters(order_data[1]) : TRUE
           IN  /\ result.error = None
               /\ result.cost =
                      Some(round(calculate_segment_cost(TotalDemand(order_data[1]),
                                                        get_distance(center, "L1"))))
    /\ (Called /\ order_data[1] = [p \in {"B"} |-> 1]) =>
           result.cost = Some(round(10 * DISTANCES[<<"C1", "L1">>]))

\* products A and C of warehouse C1, 11 weight units, priced at 26 over 3 distance units
C4_Witness ==
    /\ Called
    /\ order_data[1] = [p \in {"A", "C"} |-> 1]
    /\ result.cost = Some(78)

-----------------------------------------------------------------------------
(* C5: an order that is empty, or in which every quantity is <= 0, yields  *)
(* cost 0 and no error, and no route is enumerated or evaluated; the same  *)
(* holds of a request whose body is such an order.                         *)
C5_NothingOrdered ==
    /\ (Called /\ entry = "core" /\ \A p \in DOMAIN order_data[1] : order_data[1][p] <= 0) =>
           /\ result = [cost |-> Some(0), error |-> None, raised |-> FALSE]
           /\ ~enumerated
           /\ all_routes = << >>
           /\ route_costs = << >>
    /\ (/\ entry = "http"
        /\ request[1].is_json
        /\ request[1].is_dict
        /\ \A p \in DOMAIN request[1].body :
               request[1].body[p].int /\ request[1].body[p].val <= 0) =>
           /\ response = [status |-> 200, minimum_cost |-> Some(0), error |-> None]
           /\ ~enumerated
           /\ route_costs = << >>

\* a direct call with a zero and a negative quantity
C5_Witness ==
    /\ entry = "core"
    /\ Called
    /\ \E p, q \in DOMAIN order_data[1] : order_data[1][p] = 0 /\ order_data[1][q] < 0
    /\ result.cost = Some(0)
    /\ ~enumerated

-----------------------------------------------------------------------------
(* C7: a non-empty valid order yields either a non-negative integer cost   *)
(* and no error, or no cost and a non-empty error string; the second       *)
(* exactly when every enumerated route evaluates to infeasible; the error  *)
(* is a returned value, nothing is raised, and the handler passes either   *)
(* outcome on.                                                             *)
C7_CostOrError ==
    NonEmptyValid =>
        /\ ~result.raised
        /\ \/ result.cost # None /\ result.cost[1] \in Nat /\ result.error = None
           \/ result.cost = None /\ result.error # None /\ result.error[1] # ""
        /\ Len(route_costs) = Len(all_routes)
        /\ Len(route_costs) > 0
        /\ result.cost = None <=> \A i \in DOMAIN route_costs : route_costs[i] = Inf
        /\ entry = "http" =>
               IF result.error # None
               THEN response = [status |-> 400, minimum_cost |-> None, error |-> result.error]
               ELSE response = [status |-> 200, minimum_cost |-> result.cost, error |-> None]

\* a request over two warehouses answered with a cost
C7_Witness ==
    /\ NonEmptyValid
    /\ entry = "http"
    /\ Cardinality(involved_centers) = 2
    /\ result.cost # None
    /\ result.error = None
    /\ response.status = 200

-----------------------------------------------------------------------------
WarehousesOf(route) == SelectSeq(route, LAMBDA x : x # "L1")
L1Positions(route) == {i \in 1..Len(route) : route[i] = "L1"}
IsRouteOf(route, perm, k) ==
    /\ WarehousesOf(route) = perm
    /\ L1Positions(route) = {k + 1, Len(route)}
    /\ Len(route) = Len(perm) + (IF k < Len(perm) THEN 2 ELSE 1)
    /\ route[1] \in CenterSet
    /\ route[Len(route)] = "L1"

(* C8: for n >= 1 involved warehouses generate_all_routes returns one      *)
(* route per permutation and split point k in 1..n, n * n! routes; each    *)
(* starts at a warehouse, ends at L1, holds every involved warehouse once  *)
(* in permutation order, and holds L1 once (after the last warehouse) when *)
(* k = n and twice (after the k-th warehouse and at the end) when k < n; a *)
(* single warehouse yields the one route [warehouse, L1].                  *)
C8_RoutesEnumerated ==
    enumerated =>
        LET n == Cardinality(involved_centers)
        IN  /\ n >= 1
            /\ Len(all_routes) = n * Factorial(n)
            /\ \A perm \in Orderings(involved_centers) : \A k \in 1..n :
                   Cardinality({i \in DOMAIN all_routes :
                                   IsRouteOf(all_routes[i], perm, k)}) = 1
            /\ \A i \in DOMAIN all_routes :
                   \E perm \in Orderings(involved_centers) : \E k \in 1..n :
                       IsRouteOf(all_routes[i], perm, k)
            /\ n = 1 => \E c \in involved_centers : all_routes = << <<c, "L1">> >>

\* three involved warehouses, eighteen routes
C8_Witness ==
    /\ enumerated
    /\ Cardinality(involved_centers) = 3
    /\ Len(all_routes) = 18
    /\ \E i \in DOMAIN all_routes : all_routes[i] = <<"C2", "L1", "C3", "C1", "L1">>

-----------------------------------------------------------------------------
(* C10: for every valid non-empty order the cost returned by the           *)
(* enumeration-based version is never greater than the cost returned by    *)
(* the first version.                                                      *)
C10_SubsumesFirstVersion ==
    (NonEmptyValid /\ legacy_result # None) =>
        /\ legacy_result[1].cost # None
        /\ result.cost # None
        /\ result.cost[1] <= legacy_result[1].cost[1]

\* an order over three warehouses on which the enumeration is strictly cheaper
C10_Witness ==
    /\ NonEmptyValid
    /\ legacy_result # None
    /\ Cardinality(involved_centers) = 3
    /\ result.cost # None
    /\ legacy_result[1].cost # None
    /\ result.cost[1] < legacy_result[1].cost[1]

-----------------------------------------------------------------------------
Visited == SubSeq(w_route, 1, w_idx - 1)
PickedUp == {w_pickups[i].center : i \in DOMAIN w_pickups}
WalkTotal == W(SumOver([c \in CenterSet |-> w_weights[c].c], CenterSet), 0)

(* C9: while calculate_cost_for_route walks an enumerated route, each      *)
(* warehouse's demand weight is added to carried_weight exactly once, at   *)
(* its first visit; carried_weight is 0 right after every visit of L1; at  *)
(* the end the weights unloaded at the L1 visits add up to the total       *)
(* demand with every involved warehouse picked; on a round trip the weight *)
(* carried into L1 on the last leg is the total demand.                    *)
C9_CarriedWeight ==
    w_pc \in {"loop", "returned"} =>
        /\ \A i, j \in DOMAIN w_pickups : i # j => w_pickups[i].center # w_pickups[j].center
        /\ \A i \in DOMAIN w_pickups : w_pickups[i].weight = w_weights[w_pickups[i].center]
        /\ PickedUp = SeqRange(Visited) \ {"L1"}
        /\ w_state[1].picked_centers = PickedUp
        /\ Visited[Len(Visited)] = "L1" => w_state[1].carried_weight = WZero
        /\ Len(w_unloaded) = Cardinality(L1Positions(Visited))
        /\ WAdd(SumSeq(w_unloaded), w_state[1].carried_weight)
               = SumSeq([i \in DOMAIN w_pickups |-> w_pickups[i].weight])
        /\ w_pc = "returned" =>
               /\ SumSeq(w_unloaded) = WalkTotal
               /\ PickedUp = {c \in CenterSet : w_weights[c] # WZero}
               /\ Cardinality(L1Positions(w_route)) = 1 => w_unloaded = <<WalkTotal>>

\* a finished split delivery over three warehouses
C9_Witness ==
    /\ w_pc = "returned"
    /\ Len(w_pickups) = 3
    /\ Len(w_unloaded) = 2
    /\ w_unloaded[1] # WZero
    /\ w_unloaded[2] # WZero
    /\ WAdd(w_unloaded[1], w_unloaded[2]) = WalkTotal

-----------------------------------------------------------------------------
\* the least k >= 1 with w <= 5 + 5k, that is ceil((w - 5) / 5) for w > 5
ExtraBlocks(w) ==
    CHOOSE k \in 1..((w.c \div 500) + 1) :
        /\ WLeq(w, W(500 + 500 * k, 0))
        /\ k > 1 => ~WLeq(w, W(500 * k, 0))

(* C6: for a finite positive distance d and a weight w >= 0,               *)
(* calculate_segment_cost(w, d) = d * rate(w).                             *)
\* C6 as stated: rate(w) = 10 when w <= 5 and 10 + 8 * ceil((w - 5) / 5) when w > 5, so
\* that every weight just above 5 is priced at 18 per distance unit
C6_TierRateAsStated ==
    (s_pc = "priced" /\ s_distance > 0 /\ s_distance # Inf) =>
        s_cost = Some(s_distance * (IF WLeq(s_weight, W(500, 0)) THEN 10
                                    ELSE 10 + 8 * ExtraBlocks(s_weight)))

\* C6 as amended: rate(w) = 10 when w <= 5 + EPSILON (1e-9) and
\* 10 + 8 * ceil((w - 5) / 5) when w > 5 + EPSILON: a weight of 5 is priced at 10, a
\* weight of 5.01 or 5.5 at 18, and a weight within EPSILON above 5 still at 10
C6_TierRateWithTolerance ==
    (s_pc = "priced" /\ s_distance > 0 /\ s_distance # Inf) =>
        s_cost = Some(s_distance * (IF WLeq(s_weight, W(500, 2)) THEN 10
                                    ELSE 10 + 8 * ExtraBlocks(s_weight)))

\* 5.01 weight units over 3 distance units, priced at 18
C6_Witness ==
    /\ s_pc = "priced"
    /\ s_weight = W(501, 0)
    /\ s_distance = 6
    /\ s_cost = Some(108)

====
